---- MODULE Spec2Model ----
(***************************************************************************)
(* Model of the calendar / table-store aggregation service:                *)
(*   src/calendar_airtable_server.py  CalendarAirtableServer (the          *)
(*       integration service) and the tool-invocation adapter              *)
(*       (handle_call_tool);                                               *)
(*   src/web_server.py                the HTTP adapter.                    *)
(*                                                                         *)
(* One request is followed from the moment the adapter receives it to its  *)
(* response.  A handler runs without interruption up to its next await on  *)
(* an outbound call; the upstream's outcome (a response with a status and  *)
(* a body, or a transport fault) is chosen by the environment.             *)
(*                                                                         *)
(* Spec       one request at a time, the upstream answering anything.      *)
(* SpecStore  one request at a time in front of a calendar and a Tasks     *)
(*            table that keep what they are sent and answer from it.       *)
(* SpecConc   reminder requests handled concurrently, interleaved at       *)
(*            their awaits.                                                *)
(*                                                                         *)
(* Python values:                                                          *)
(*   dict            a function whose DOMAIN is the set of keys present    *)
(*   f-string text   a tuple of its parts                                  *)
(*   date/time text  a sequence of tokens <<kind, a, b, c>> (see Tok)      *)
(*   searched text   a sequence of one-character strings                   *)
(***************************************************************************)
EXTENDS Integers, Sequences, FiniteSets, TLC

VARIABLES
    pc,        \* "idle" | "waiting" (handler suspended in an await) | "done"
    req,       \* the request being handled: [adapter, op, args]
    calls,     \* outbound calls this request has issued, in order
    outcomes,  \* what the upstream did with each of them, in order
    results,   \* what the integration service gave its caller for each
    resp,      \* the adapter's response to the caller
    store,     \* what the calendar and the Tasks table hold
    fetched,   \* the last fetches of the Tasks table since it was last written
    created,   \* the field maps stored for create_airtable_task
    slots,     \* the requests handled concurrently, each with its own locals
    wire       \* the outbound calls of the requests in flight, as issued

vars == <<pc, req, calls, outcomes, results, resp, store, fetched, created, slots, wire>>

\* the remote state and what has been observed of it
remote == <<store, fetched, created>>

\* the requests of the concurrent adapter
conc == <<slots, wire>>

(***************************************************************************)
(* Bounds of the model                                                     *)
(***************************************************************************)
MaxEvents == 2      \* events in one upstream event list
MaxRecords == 2     \* records in one upstream record list
MaxAttendees == 2   \* attendee addresses in one create_calendar_event call
MaxStore == 2       \* events the calendar holds, rows the Tasks table holds
MaxRequests == 2    \* requests handled at the same time

(***************************************************************************)
(* Sequences                                                               *)
(***************************************************************************)
SeqsUpTo(S, n) == UNION {[1..k -> S] : k \in 0..n}

RECURSIVE SelectIdx(_, _, _)
\* the indices i >= from of s for which keep[i], in order
SelectIdx(keep, from, n) ==
    IF from > n THEN <<>>
    ELSE IF keep[from] THEN <<from>> \o SelectIdx(keep, from + 1, n)
    ELSE SelectIdx(keep, from + 1, n)

Restrict(f, S) == [k \in S |-> f[k]]

(***************************************************************************)
(* Date/time text and datetime values                                      *)
(*                                                                         *)
(* A token is <<kind, a, b, c>>:                                           *)
(*   <<"date", y, m, d>>   "YYYY-MM-DD"                                    *)
(*   <<"hm", h, mi, 0>>    "HH:MM"                                         *)
(*   <<"time", h, mi, s>>  "HH:MM:SS"                                      *)
(*   <<"T",0,0,0>>, <<"Z",0,0,0>>, <<":00",0,0,0>>   the literal text      *)
(*   <<"off", h, mi, 0>>   a UTC offset "+HH:MM"                           *)
(*   <<"junk",0,0,0>>      text that is no part of a timestamp             *)
(***************************************************************************)
Tok(k, a, b, c) == <<k, a, b, c>>
TokT == Tok("T", 0, 0, 0)
TokZ == Tok("Z", 0, 0, 0)
TokSec00 == Tok(":00", 0, 0, 0)
TokJunk == Tok("junk", 0, 0, 0)
Kind(t) == t[1]

IsLeap(y) == (y % 4 = 0 /\ y % 100 # 0) \/ y % 400 = 0

DaysInMonth(y, m) ==
    IF m = 2 THEN (IF IsLeap(y) THEN 29 ELSE 28)
    ELSE IF m \in {4, 6, 9, 11} THEN 30 ELSE 31

\* a datetime object; off = <<>> for a naive one, <<offset token>> for an aware one
DT(y, m, d, h, mi, s, off) ==
    [y |-> y, m |-> m, d |-> d, h |-> h, mi |-> mi, s |-> s, off |-> off]

RECURSIVE AddDays(_, _)
AddDays(dt, n) ==
    IF n = 0 THEN dt
    ELSE IF dt.d < DaysInMonth(dt.y, dt.m) THEN AddDays([dt EXCEPT !.d = @ + 1], n - 1)
    ELSE IF dt.m < 12 THEN AddDays([dt EXCEPT !.d = 1, !.m = @ + 1], n - 1)
    ELSE AddDays([dt EXCEPT !.d = 1, !.m = 1, !.y = @ + 1], n - 1)

\* dt + timedelta(minutes=n), n >= 0
AddMinutes(dt, n) ==
    LET total == dt.h * 60 + dt.mi + n
        rest  == total % 1440
    IN  AddDays([dt EXCEPT !.h = rest \div 60, !.mi = rest % 60], total \div 1440)

\* datetime.fromisoformat(text): [ok |-> FALSE] stands for ValueError
ParseFail == [ok |-> FALSE, dt |-> DT(0, 0, 0, 0, 0, 0, <<>>)]
ParseOk(dt) == [ok |-> TRUE, dt |-> dt]

fromisoformat(text) ==
    LET n == Len(text) IN
    IF n = 0 \/ n = 2 \/ n > 4 THEN ParseFail
    ELSE IF Kind(text[1]) # "date" THEN ParseFail
    ELSE IF n = 1
         THEN ParseOk(DT(text[1][2], text[1][3], text[1][4], 0, 0, 0, <<>>))
    ELSE IF Kind(text[2]) # "T" THEN ParseFail
    ELSE IF n = 3 /\ Kind(text[3]) = "time"
         THEN ParseOk(DT(text[1][2], text[1][3], text[1][4],
                         text[3][2], text[3][3], text[3][4], <<>>))
    ELSE IF n = 4 /\ Kind(text[3]) = "hm" /\ Kind(text[4]) = ":00"
         THEN ParseOk(DT(text[1][2], text[1][3], text[1][4],
                         text[3][2], text[3][3], 0, <<>>))
    ELSE IF n = 4 /\ Kind(text[3]) = "time" /\ Kind(text[4]) = "off"
         THEN ParseOk(DT(text[1][2], text[1][3], text[1][4],
                         text[3][2], text[3][3], text[3][4], <<text[4]>>))
    ELSE ParseFail

\* dt.isoformat(): "YYYY-MM-DDTHH:MM:SS", followed by the offset of an aware dt
isoformat(dt) ==
    <<Tok("date", dt.y, dt.m, dt.d), TokT, Tok("time", dt.h, dt.mi, dt.s)>> \o dt.off

\* text.replace('Z', '')
RemoveZ(text) ==
    LET keep == [i \in 1..Len(text) |-> Kind(text[i]) # "Z"]
        idx  == SelectIdx(keep, 1, Len(text))
    IN  [i \in 1..Len(idx) |-> text[idx[i]]]

\* text.split('T')[0]
BeforeT(text) ==
    LET ts == {i \in 1..Len(text) : Kind(text[i]) = "T"}
    IN  IF ts = {} THEN text
        ELSE SubSeq(text, 1, (CHOOSE i \in ts : \A j \in ts : i <= j) - 1)

(***************************************************************************)
(* Python values                                                           *)
(***************************************************************************)
\* what an awaited service call gives the handler
Value(v) == [kind |-> "value", val |-> v]
NoneValue == [kind |-> "none", val |-> <<>>]
Raised(type, text) == [kind |-> "raise", val |-> <<type, text>>]

\* bool(x) of a service result: None, [] and {} are false
Truthy(r) == r.kind = "value" /\ DOMAIN r.val # {}
IsNone(r) == r.kind = "none"

\* d.get(key, default)
Get(d, key, default) == IF key \in DOMAIN d THEN d[key] ELSE default

\* dict `d` with d[key] = v set
With(d, key, v) == [k \in DOMAIN d \cup {key} |-> IF k = key THEN v ELSE d[k]]

\* the value of an absent or null argument
None == <<>>

(***************************************************************************)
(* The upstream: outbound calls and their outcomes                         *)
(***************************************************************************)
\* a call of `async with session.get/post(...)`
OutCall(svc, verb, table, params, json) ==
    [svc |-> svc, verb |-> verb, table |-> table, params |-> params, json |-> json]

\* fault: the request raised (DNS failure, timeout, connection reset);
\* parses: response.json() decodes the body
Fault == [fault |-> TRUE, status |-> 0, parses |-> FALSE, body |-> <<>>]
Response(status, parses, body) ==
    [fault |-> FALSE, status |-> status, parses |-> parses, body |-> body]

Statuses == {200, 401}

Summaries == {"Standup", "Lunch"}
\* provider events; `summary` is optional in the provider's schema
Events ==
    {[id |-> "evt"]}
        \cup {[id |-> "evt", summary |-> t] : t \in Summaries}
        \cup {[id |-> "evt", summary |-> "Review",
               start |-> [dateTime |-> <<Tok("date", 2024, 2, 26), TokT,
                                         Tok("time", 14, 0, 0), TokZ>>]]}
EventListBodies ==
    {[kind |-> "calendar#events"]}
        \cup {[kind |-> "calendar#events", items |-> es] : es \in SeqsUpTo(Events, MaxEvents)}

\* contact names and addresses the store holds
StoredNames == {<<"A", "b">>, <<"b", "a">>}
StoredEmails == {<<"a", "B">>}
ContactFields ==
    {Restrict(f, S \cup {"Phone"}) :
        f \in [Name : StoredNames, Email : StoredEmails, Phone : {<<"5">>}],
        S \in SUBSET {"Name", "Email"}}
Records == {[id |-> "rec", fields |-> f] : f \in ContactFields} \cup {[id |-> "rec"]}
RecordListBodies ==
    {[offset |-> ""]} \cup {[records |-> rs] : rs \in SeqsUpTo(Records, MaxRecords)}

\* rows of the Tasks table
TaskFieldMaps ==
    {With([Name |-> "Write report", Status |-> "Open"], "Due Date", "2024-03-01"),
     [Name |-> "Write report"],
     [Status |-> "Open"]}
TaskRecords == {[id |-> "rec", fields |-> f] : f \in TaskFieldMaps}
TaskListBodies ==
    {[offset |-> ""]} \cup {[records |-> rs] : rs \in SeqsUpTo(TaskRecords, MaxRecords)}

CreatedEvent == [id |-> "evt", status |-> "confirmed"]
CreatedRecord == [id |-> "rec", createdTime |-> "t"]

Bodies(call) ==
    IF call.verb = "GET"
    THEN (IF call.svc = "calendar" THEN EventListBodies
          ELSE IF call.table = "Tasks" THEN TaskListBodies
          ELSE RecordListBodies)
    ELSE (IF call.svc = "calendar" THEN {CreatedEvent} ELSE {CreatedRecord})

Outcomes(call) ==
    {Fault}
        \cup {Response(200, FALSE, <<>>)}
        \cup {Response(s, TRUE, <<>>) : s \in Statuses \ {200}}
        \cup {Response(200, TRUE, b) : b \in Bodies(call)}

(***************************************************************************)
(* Integration service (CalendarAirtableServer)                            *)
(***************************************************************************)
ClientError == Raised("ClientError", "Cannot connect to host")
DecodeError == Raised("ContentTypeError", "Attempt to decode JSON with unexpected mimetype")

\* `x or default` of an optional text argument
OrDefault(x, default) == IF Len(x) = 0 THEN default ELSE x

\* get_google_events: the request it sends
get_google_events_call(start_time, end_time, utcnow) ==
    OutCall("calendar", "GET", "",
            [timeMin |-> OrDefault(start_time, isoformat(utcnow) \o <<TokZ>>),
             timeMax |-> OrDefault(end_time, isoformat(AddDays(utcnow, 7)) \o <<TokZ>>),
             singleEvents |-> <<"true">>,
             orderBy |-> <<"startTime">>],
            <<>>)

\* get_google_events: what it makes of the outcome
get_google_events_result(o) ==
    IF o.fault THEN ClientError
    ELSE IF o.status = 200
         THEN (IF o.parses THEN Value(Get(o.body, "items", <<>>)) ELSE DecodeError)
    ELSE Value(<<>>)

create_google_event_call(event_data) ==
    OutCall("calendar", "POST", "", <<>>, event_data)

create_google_event_result(o) ==
    IF o.fault THEN ClientError
    ELSE IF o.status = 200
         THEN (IF o.parses THEN Value(o.body) ELSE DecodeError)
    ELSE NoneValue

\* mutant: the fetch is sent as a create
get_airtable_records_call_post(table_name, filter_formula) ==
    OutCall("table", "POST", table_name,
            IF Len(filter_formula) = 0 THEN <<>>
            ELSE [filterByFormula |-> filter_formula],
            <<>>)

get_airtable_records_call(table_name, filter_formula) ==
    OutCall("table", "GET", table_name,
            IF Len(filter_formula) = 0 THEN <<>>
            ELSE [filterByFormula |-> filter_formula],
            <<>>)

get_airtable_records_result(o) ==
    IF o.fault THEN ClientError
    ELSE IF o.status = 200
         THEN (IF o.parses THEN Value(Get(o.body, "records", <<>>)) ELSE DecodeError)
    ELSE Value(<<>>)

create_airtable_record_call(table_name, fields) ==
    OutCall("table", "POST", table_name, <<>>, [fields |-> fields])

create_airtable_record_result(o) ==
    IF o.fault THEN ClientError
    ELSE IF o.status = 200
         THEN (IF o.parses THEN Value(o.body) ELSE DecodeError)
    ELSE NoneValue

\* the service operation that issued `call` completes with outcome `o`
ServiceResult(call, o) ==
    IF call.svc = "calendar"
    THEN (IF call.verb = "GET" THEN get_google_events_result(o)
          ELSE create_google_event_result(o))
    ELSE (IF call.verb = "GET" THEN get_airtable_records_result(o)
          ELSE create_airtable_record_result(o))

(***************************************************************************)
(* Handler steps                                                           *)
(*                                                                         *)
(* A handler is a function of its arguments and of the results `rs` its    *)
(* awaits have received so far: it issues its next outbound call, returns  *)
(* a response, or raises.                                                  *)
(***************************************************************************)
NoCall == OutCall("", "", "", <<>>, <<>>)
NoResp == [kind |-> "none", status |-> 0, msg |-> <<>>, data |-> <<>>]

DoCall(c) == [next |-> "call", call |-> c, resp |-> NoResp]
Return(r) == [next |-> "return", call |-> NoCall, resp |-> r]
\* an exception leaving the handler; msg = <<type, str(e)>>
Raise(type, text) ==
    [next |-> "raise", call |-> NoCall,
     resp |-> [kind |-> "exception", status |-> 0, msg |-> <<type, text>>, data |-> <<>>]]
\* the exception an awaited service call raised, leaving the handler
Reraise(r) == Raise(r.val[1], r.val[2])

Text(parts) == [kind |-> "text", status |-> 0, msg |-> parts, data |-> <<>>]
TextWith(parts, data) == [kind |-> "text", status |-> 0, msg |-> parts, data |-> data]

KeyError(key) == Raise("KeyError", key)
ValueError == Raise("ValueError", "Invalid isoformat string")

TimeZone == "America/New_York"

(***************************************************************************)
(* Tool-invocation adapter: handle_call_tool                               *)
(***************************************************************************)
\* mutant: the attendee list is built back to front
tool_event_data_reversed(arguments) ==
    LET base == [summary |-> arguments["title"],
                 start |-> [dateTime |-> arguments["start_datetime"], timeZone |-> TimeZone],
                 end |-> [dateTime |-> arguments["end_datetime"], timeZone |-> TimeZone]]
        withDescription ==
            IF "description" \in DOMAIN arguments
            THEN With(base, "description", arguments["description"])
            ELSE base
        n == Len(arguments["attendees"])
    IN  IF "attendees" \in DOMAIN arguments
        THEN With(withDescription, "attendees",
                  [i \in 1..n |-> [email |-> arguments["attendees"][n + 1 - i]]])
        ELSE withDescription

\* create_calendar_event: the event object built from the arguments
tool_event_data(arguments) ==
    LET base == [summary |-> arguments["title"],
                 start |-> [dateTime |-> arguments["start_datetime"], timeZone |-> TimeZone],
                 end |-> [dateTime |-> arguments["end_datetime"], timeZone |-> TimeZone]]
        withDescription ==
            IF "description" \in DOMAIN arguments
            THEN With(base, "description", arguments["description"])
            ELSE base
        event_data ==
            IF "attendees" \in DOMAIN arguments
            THEN With(withDescription, "attendees",
                      [i \in 1..Len(arguments["attendees"]) |->
                          [email |-> arguments["attendees"][i]]])
            ELSE withDescription
    IN  event_data

\* name == "create_calendar_event"
tool_create_calendar_event(arguments, rs) ==
    IF "title" \notin DOMAIN arguments THEN KeyError("title")
    ELSE IF "start_datetime" \notin DOMAIN arguments THEN KeyError("start_datetime")
    ELSE IF "end_datetime" \notin DOMAIN arguments THEN KeyError("end_datetime")
    ELSE
        IF Len(rs) = 0 THEN DoCall(create_google_event_call(tool_event_data(arguments)))
        ELSE IF rs[1].kind = "raise" THEN Reraise(rs[1])
        ELSE IF Truthy(rs[1])
             THEN Return(Text(<<"Calendar event '", arguments["title"],
                                "' created successfully!">>))
        ELSE Return(Text(<<"Failed to create calendar event. Check your credentials.">>))

\* the fixed reminder length (timedelta(minutes=15))
ReminderMinutes == 15

\* name == "check_availability"
tool_check_availability(arguments, rs) ==
    IF "date" \notin DOMAIN arguments THEN KeyError("date")
    ELSE IF "start_time" \notin DOMAIN arguments THEN KeyError("start_time")
    ELSE IF "duration_minutes" \notin DOMAIN arguments THEN KeyError("duration_minutes")
    ELSE
    LET date       == arguments["date"]
        start_time == arguments["start_time"]
        duration   == arguments["duration_minutes"]
        parsed     == fromisoformat(date \o <<TokT>> \o start_time \o <<TokSec00>>)
        start_datetime == parsed.dt
        end_datetime   == AddMinutes(start_datetime, duration)
    IN  IF ~parsed.ok THEN ValueError
        ELSE IF Len(rs) = 0
             THEN DoCall(get_google_events_call(isoformat(start_datetime) \o <<TokZ>>,
                                                isoformat(end_datetime) \o <<TokZ>>,
                                                DT(0, 0, 0, 0, 0, 0, <<>>)))
        ELSE IF rs[1].kind = "raise" THEN Reraise(rs[1])
        ELSE LET events == rs[1].val IN
             IF Len(events) > 0
             THEN Return(TextWith(<<"Time slot NOT available. Conflicts:\n">>,
                     [conflict_details |->
                         [i \in 1..Len(events) |->
                             <<"- ", Get(events[i], "summary", "Untitled event")>>]]))
             ELSE Return(Text(<<"Time slot from ", start_time, " for ", duration,
                                " minutes on ", date, " is AVAILABLE!">>))

\* mutant: an omitted status is sent with a default, as POST /tasks does
tool_task_fields_default(arguments) ==
    LET keys == {"Name", "Status"}
                    \cup (IF "due_date" \in DOMAIN arguments THEN {"Due Date"} ELSE {})
                    \cup (IF "priority" \in DOMAIN arguments THEN {"Priority"} ELSE {})
                    \cup (IF "notes" \in DOMAIN arguments THEN {"Notes"} ELSE {})
    IN  [k \in keys |->
            CASE k = "Name" -> arguments["name"]
              [] k = "Status" -> Get(arguments, "status", "To Do")
              [] k = "Due Date" -> arguments["due_date"]
              [] k = "Priority" -> arguments["priority"]
              [] k = "Notes" -> arguments["notes"]]

\* create_airtable_task: the field map built from the arguments
tool_task_fields(arguments) ==
    LET f0 == [Name |-> arguments["name"]]
        f1 == IF "status" \in DOMAIN arguments
              THEN With(f0, "Status", arguments["status"]) ELSE f0
        f2 == IF "due_date" \in DOMAIN arguments
              THEN With(f1, "Due Date", arguments["due_date"]) ELSE f1
        f3 == IF "priority" \in DOMAIN arguments
              THEN With(f2, "Priority", arguments["priority"]) ELSE f2
        fields == IF "notes" \in DOMAIN arguments
                  THEN With(f3, "Notes", arguments["notes"]) ELSE f3
    IN  fields

\* mutant: the name is read with .get(), so a call without it is still sent
tool_create_airtable_task_get(arguments, rs) ==
    IF Len(rs) = 0
    THEN DoCall(create_airtable_record_call("Tasks",
                    With(tool_task_fields(With(arguments, "name", "None")),
                         "Name", Get(arguments, "name", "None"))))
    ELSE IF rs[1].kind = "raise" THEN Reraise(rs[1])
    ELSE IF Truthy(rs[1])
         THEN Return(Text(<<"Task '", Get(arguments, "name", "None"),
                            "' created in Airtable successfully!">>))
    ELSE Return(Text(<<"Failed to create task in Airtable. Check your credentials.">>))

\* name == "create_airtable_task"
tool_create_airtable_task(arguments, rs) ==
    IF "name" \notin DOMAIN arguments THEN KeyError("name")
    ELSE
        IF Len(rs) = 0
        THEN DoCall(create_airtable_record_call("Tasks", tool_task_fields(arguments)))
        ELSE IF rs[1].kind = "raise" THEN Reraise(rs[1])
        ELSE IF Truthy(rs[1])
             THEN Return(Text(<<"Task '", arguments["name"],
                                "' created in Airtable successfully!">>))
        ELSE Return(Text(<<"Failed to create task in Airtable. Check your credentials.">>))

\* str.lower()
LowerChar(c) == CASE c = "A" -> "a" [] c = "B" -> "b" [] OTHER -> c
Lower(text) == [i \in 1..Len(text) |-> LowerChar(text[i])]

\* `sub in text`
Contains(sub, text) ==
    \E i \in 0..(Len(text) - Len(sub)) : SubSeq(text, i + 1, i + Len(sub)) = sub

\* the store's record list as the handlers read it: record.get("fields", {})
FieldsOf(record) == Get(record, "fields", <<>>)

\* mutant: the stored name is compared without lowering it
tool_contact_matches_cased(search_term, fields) ==
    \/ Contains(search_term, Get(fields, "Name", <<>>))
    \/ Contains(search_term, Lower(Get(fields, "Email", <<>>)))

\* search_contacts: does the record with these fields match the lowered term
tool_contact_matches(search_term, fields) ==
    \/ Contains(search_term, Lower(Get(fields, "Name", <<>>)))
    \/ Contains(search_term, Lower(Get(fields, "Email", <<>>)))

\* name == "search_contacts"
tool_search_contacts(arguments, rs) ==
    IF "search_term" \notin DOMAIN arguments THEN KeyError("search_term")
    ELSE
    LET search_term == Lower(arguments["search_term"]) IN
    IF Len(rs) = 0 THEN DoCall(get_airtable_records_call("Contacts", None))
    ELSE IF rs[1].kind = "raise" THEN Reraise(rs[1])
    ELSE
    LET records == rs[1].val
        hit == [i \in 1..Len(records) |->
                   tool_contact_matches(search_term, FieldsOf(records[i]))]
        idx == SelectIdx(hit, 1, Len(records))
        matching_contacts ==
            [j \in 1..Len(idx) |->
                [name  |-> Get(FieldsOf(records[idx[j]]), "Name", <<"No name">>),
                 email |-> Get(FieldsOf(records[idx[j]]), "Email", <<"No email">>),
                 phone |-> Get(FieldsOf(records[idx[j]]), "Phone", <<"No phone">>)]]
    IN  IF Len(matching_contacts) > 0
        THEN Return(TextWith(<<"Found ", Len(matching_contacts), " matching contacts:\n">>,
                             [contacts |-> matching_contacts]))
        ELSE Return(TextWith(<<"No contacts found matching '", arguments["search_term"], "'">>,
                             [contacts |-> <<>>]))

\* mutant: the first test reads `or`, so one success is reported as both
tool_reminder_message_or(title, calendar_result, airtable_result) ==
    IF Truthy(calendar_result) \/ Truthy(airtable_result)
    THEN Text(<<"Reminder '", title, "' created successfully in both calendar and Airtable!">>)
    ELSE Text(<<"Failed to create reminder '", title, "'. Check your credentials.">>)

\* create_reminder: the message for the two create results
tool_reminder_message(title, calendar_result, airtable_result) ==
    IF Truthy(calendar_result) /\ Truthy(airtable_result)
    THEN Text(<<"Reminder '", title, "' created successfully in both calendar and Airtable!">>)
    ELSE IF Truthy(calendar_result)
    THEN Text(<<"Reminder '", title, "' created in calendar only. Airtable creation failed.">>)
    ELSE IF Truthy(airtable_result)
    THEN Text(<<"Reminder '", title, "' created in Airtable only. Calendar creation failed.">>)
    ELSE Text(<<"Failed to create reminder '", title, "'. Check your credentials.">>)

\* name == "create_reminder"
tool_create_reminder(arguments, rs) ==
    IF "title" \notin DOMAIN arguments THEN KeyError("title")
    ELSE IF "datetime" \notin DOMAIN arguments THEN KeyError("datetime")
    ELSE
    LET title == arguments["title"]
        reminder_datetime == arguments["datetime"]
        notes == Get(arguments, "notes", "")
        parsed == fromisoformat(RemoveZ(reminder_datetime))
        event_data ==
            [summary |-> <<"Reminder: ", title>>,
             start |-> [dateTime |-> reminder_datetime, timeZone |-> TimeZone],
             end |-> [dateTime |-> isoformat(AddMinutes(parsed.dt, ReminderMinutes)) \o <<TokZ>>,
                      timeZone |-> TimeZone],
             description |-> notes]
        task_fields ==
            [k \in {"Name", "Status", "Due Date", "Notes"} |->
                CASE k = "Name" -> <<"Reminder: ", title>>
                  [] k = "Status" -> "Pending"
                  [] k = "Due Date" -> BeforeT(reminder_datetime)
                  [] k = "Notes" -> notes]
    IN  IF ~parsed.ok THEN ValueError
        ELSE IF Len(rs) = 0 THEN DoCall(create_google_event_call(event_data))
        ELSE IF rs[1].kind = "raise" THEN Reraise(rs[1])
        ELSE IF Len(rs) = 1 THEN DoCall(create_airtable_record_call("Tasks", task_fields))
        ELSE IF rs[2].kind = "raise" THEN Reraise(rs[2])
        ELSE Return(tool_reminder_message(title, rs[1], rs[2]))

unknown_tool(name) == Return(Text(<<"Unknown tool: ", name>>))

handle_call_tool(name, arguments, rs) ==
    CASE name = "create_calendar_event" -> tool_create_calendar_event(arguments, rs)
      [] name = "check_availability" -> tool_check_availability(arguments, rs)
      [] name = "create_airtable_task" -> tool_create_airtable_task(arguments, rs)
      [] name = "search_contacts" -> tool_search_contacts(arguments, rs)
      [] name = "create_reminder" -> tool_create_reminder(arguments, rs)
      [] OTHER -> unknown_tool(name)

(***************************************************************************)
(* Tool-invocation adapter: resources                                      *)
(***************************************************************************)
\* handle_list_resources: the URIs advertised
list_resources ==
    <<"calendar://today", "calendar://week", "airtable://tasks", "airtable://contacts">>

\* mutant: the read handler tests the table-store URIs under another scheme
read_branch_renamed(uri) ==
    CASE uri = "calendar://today" -> "today"
      [] uri = "calendar://week" -> "week"
      [] uri = "table://tasks" -> "tasks"
      [] uri = "table://contacts" -> "contacts"
      [] OTHER -> "unknown"

\* handle_read_resource: the branch of the if/elif chain that `uri` takes
read_branch(uri) ==
    CASE uri = "calendar://today" -> "today"
      [] uri = "calendar://week" -> "week"
      [] uri = "airtable://tasks" -> "tasks"
      [] uri = "airtable://contacts" -> "contacts"
      [] OTHER -> "unknown"

\* "- <start>: <title>\n" for each event
event_lines(events) ==
    [i \in 1..Len(events) |->
        <<"- ", Get(Get(events[i], "start", <<>>), "dateTime", "All day"), ": ",
          Get(events[i], "summary", "No title"), "\n">>]

\* "- <name> (Status: <status>, Due: <date>)\n" for each task record
task_lines(records) ==
    [i \in 1..Len(records) |->
        <<"- ", Get(FieldsOf(records[i]), "Name", "Untitled"),
          " (Status: ", Get(FieldsOf(records[i]), "Status", "Unknown"),
          ", Due: ", Get(FieldsOf(records[i]), "Due Date", "No due date"), ")\n">>]

\* "- <name>: <email>, <phone>\n" for each contact record
contact_lines(records) ==
    [i \in 1..Len(records) |->
        <<"- ", Get(FieldsOf(records[i]), "Name", <<"No name">>),
          ": ", Get(FieldsOf(records[i]), "Email", <<"No email">>),
          ", ", Get(FieldsOf(records[i]), "Phone", <<"No phone">>), "\n">>]

handle_read_resource(uri, now, rs) ==
    LET branch == read_branch(uri) IN
    IF branch = "unknown" THEN Return(Text(<<"Unknown resource: ", uri>>))
    ELSE IF Len(rs) = 0
    THEN (CASE branch = "today" ->
                  DoCall(get_google_events_call(
                      isoformat([now EXCEPT !.h = 0, !.mi = 0, !.s = 0]) \o <<TokZ>>,
                      isoformat([now EXCEPT !.h = 23, !.mi = 59, !.s = 59]) \o <<TokZ>>,
                      now))
            [] branch = "week" ->
                  DoCall(get_google_events_call(
                      isoformat(now) \o <<TokZ>>,
                      isoformat(AddDays(now, 7)) \o <<TokZ>>,
                      now))
            [] branch = "tasks" -> DoCall(get_airtable_records_call("Tasks", None))
            [] branch = "contacts" -> DoCall(get_airtable_records_call("Contacts", None)))
    ELSE IF rs[1].kind = "raise" THEN Reraise(rs[1])
    ELSE IF Len(rs[1].val) = 0
    THEN (CASE branch = "today" -> Return(Text(<<"No events scheduled for today.">>))
            [] branch = "week" -> Return(Text(<<"No events scheduled for this week.">>))
            [] branch = "tasks" -> Return(Text(<<"No tasks found in Airtable.">>))
            [] branch = "contacts" -> Return(Text(<<"No contacts found in Airtable.">>)))
    ELSE (CASE branch = "today" ->
                  Return(TextWith(<<"Today's Schedule:\n">>,
                                  [lines |-> event_lines(rs[1].val)]))
            [] branch = "week" ->
                  Return(TextWith(<<"This Week's Schedule:\n">>,
                                  [lines |-> event_lines(rs[1].val)]))
            [] branch = "tasks" ->
                  Return(TextWith(<<"Tasks from Airtable:\n">>,
                                  [lines |-> task_lines(rs[1].val)]))
            [] branch = "contacts" ->
                  Return(TextWith(<<"Contacts from Airtable:\n">>,
                                  [lines |-> contact_lines(rs[1].val)])))

(***************************************************************************)
(* HTTP adapter (web_server.py)                                            *)
(***************************************************************************)
Json(data) == [kind |-> "json", status |-> 200, msg |-> <<>>, data |-> data]

\* raise HTTPException(status_code=status, detail=detail); str(e) is "<status>: <detail>"
HTTPException(status, text) ==
    [next |-> "raise", call |-> NoCall,
     resp |-> [kind |-> "exception", status |-> status,
               msg |-> <<"HTTPException", text>>, data |-> <<>>]]

\* the failure response the framework renders from an HTTPException that left the handler
HttpError(status, detail) ==
    [kind |-> "http_error", status |-> status, msg |-> <<detail>>, data |-> <<>>]

\* mutant: an HTTPException raised inside the try block passes through unchanged
except_Exception_passthrough(step) ==
    IF step.next = "raise"
    THEN [next |-> "return", call |-> NoCall,
          resp |-> IF step.resp.msg[1] = "HTTPException"
                   THEN HttpError(step.resp.status, step.resp.msg[2])
                   ELSE HttpError(500, step.resp.msg[2])]
    ELSE step

\* try: <step> except Exception as e: raise HTTPException(status_code=500, detail=str(e))
except_Exception(step) ==
    IF step.next = "raise"
    THEN [next |-> "return", call |-> NoCall, resp |-> HttpError(500, step.resp.msg[2])]
    ELSE step

\* str(None) inside an f-string, as date/time text
NoneStamp == <<TokJunk>>
\* None where text is expected
NoneText == <<"None">>
AttributeError == Raise("AttributeError", "'NoneType' object has no attribute 'replace'")

\* POST /calendar/events
http_create_calendar_event(event_data, rs) ==
    except_Exception(
        IF Len(rs) = 0 THEN DoCall(create_google_event_call(event_data))
        ELSE IF rs[1].kind = "raise" THEN Reraise(rs[1])
        ELSE IF Truthy(rs[1]) THEN Return(Json([success |-> TRUE, event |-> rs[1].val]))
        ELSE HTTPException(400, "400: Failed to create event"))

\* GET /calendar/events
http_get_calendar_events(query, utcnow, rs) ==
    except_Exception(
        IF Len(rs) = 0
        THEN DoCall(get_google_events_call(Get(query, "start_time", None),
                                           Get(query, "end_time", None), utcnow))
        ELSE IF rs[1].kind = "raise" THEN Reraise(rs[1])
        ELSE Return(Json([events |-> rs[1].val])))

\* mutant: a single returned event is not taken for a conflict
http_is_available_single(events) == Len(events) <= 1

\* POST /calendar/check-availability: is_available = len(events) == 0
http_is_available(events) == Len(events) = 0

\* POST /calendar/check-availability
http_check_availability(data, rs) ==
    except_Exception(
        LET date       == Get(data, "date", NoneStamp)
            start_time == Get(data, "start_time", NoneStamp)
            duration   == Get(data, "duration_minutes", 60)
            parsed     == fromisoformat(date \o <<TokT>> \o start_time \o <<TokSec00>>)
            start_datetime == parsed.dt
            end_datetime   == AddMinutes(start_datetime, duration)
        IN  IF ~parsed.ok THEN ValueError
            ELSE IF Len(rs) = 0
                 THEN DoCall(get_google_events_call(isoformat(start_datetime) \o <<TokZ>>,
                                                    isoformat(end_datetime) \o <<TokZ>>,
                                                    DT(0, 0, 0, 0, 0, 0, <<>>)))
            ELSE IF rs[1].kind = "raise" THEN Reraise(rs[1])
            ELSE LET events == rs[1].val IN
                 Return(Json([available |-> http_is_available(events),
                              conflicts |->
                                  [i \in 1..Len(events) |->
                                      Get(events[i], "summary", "Untitled")],
                              requested_slot |->
                                  [date |-> date, start_time |-> start_time,
                                   duration_minutes |-> duration]])))

\* GET /airtable/{table_name}
http_get_airtable_records(args, rs) ==
    except_Exception(
        IF Len(rs) = 0
        THEN DoCall(get_airtable_records_call(args["table_name"],
                                              Get(args, "filter_formula", None)))
        ELSE IF rs[1].kind = "raise" THEN Reraise(rs[1])
        ELSE Return(Json([records |-> rs[1].val])))

\* POST /airtable/{table_name}
http_create_airtable_record(args, rs) ==
    except_Exception(
        IF Len(rs) = 0
        THEN DoCall(create_airtable_record_call(args["table_name"], args["fields"]))
        ELSE IF rs[1].kind = "raise" THEN Reraise(rs[1])
        ELSE IF Truthy(rs[1]) THEN Return(Json([success |-> TRUE, record |-> rs[1].val]))
        ELSE HTTPException(400, "400: Failed to create record"))

\* mutant: POST /tasks sends only the fields the caller gave
http_task_fields_given(task_data) ==
    LET kept == (IF "name" \in DOMAIN task_data THEN {"Name"} ELSE {})
                    \cup (IF "status" \in DOMAIN task_data THEN {"Status"} ELSE {})
                    \cup (IF "priority" \in DOMAIN task_data THEN {"Priority"} ELSE {})
                    \cup (IF "due_date" \in DOMAIN task_data THEN {"Due Date"} ELSE {})
                    \cup (IF "notes" \in DOMAIN task_data THEN {"Notes"} ELSE {})
    IN  [k \in kept |->
            CASE k = "Name" -> task_data["name"]
              [] k = "Status" -> task_data["status"]
              [] k = "Priority" -> task_data["priority"]
              [] k = "Due Date" -> task_data["due_date"]
              [] k = "Notes" -> task_data["notes"]]

\* POST /tasks: the field map, None values removed
http_task_fields(task_data) ==
    LET \* the keys whose value is not None once the defaults are applied
        kept == {"Status", "Priority", "Notes"}
                    \cup (IF "name" \in DOMAIN task_data THEN {"Name"} ELSE {})
                    \cup (IF "due_date" \in DOMAIN task_data THEN {"Due Date"} ELSE {})
    IN  [k \in kept |->
            CASE k = "Name" -> task_data["name"]
              [] k = "Status" -> Get(task_data, "status", "To Do")
              [] k = "Priority" -> Get(task_data, "priority", "Medium")
              [] k = "Due Date" -> task_data["due_date"]
              [] k = "Notes" -> Get(task_data, "notes", "")]

\* POST /tasks
http_create_task(task_data, rs) ==
    except_Exception(
        LET fields == http_task_fields(task_data)
        IN  IF Len(rs) = 0 THEN DoCall(create_airtable_record_call("Tasks", fields))
            ELSE IF rs[1].kind = "raise" THEN Reraise(rs[1])
            ELSE IF Truthy(rs[1]) THEN Return(Json([success |-> TRUE, task |-> rs[1].val]))
            ELSE HTTPException(400, "400: Failed to create task"))

\* POST /contacts/search: does the record with these fields match the lowered term
http_contact_matches(search_term, fields) ==
    \/ Contains(search_term, Lower(Get(fields, "Name", <<>>)))
    \/ Contains(search_term, Lower(Get(fields, "Email", <<>>)))

\* POST /contacts/search
http_search_contacts(search_data, rs) ==
    except_Exception(
        LET search_term == Lower(Get(search_data, "search_term", <<>>)) IN
        IF Len(rs) = 0 THEN DoCall(get_airtable_records_call("Contacts", None))
        ELSE IF rs[1].kind = "raise" THEN Reraise(rs[1])
        ELSE
        LET records == rs[1].val
            hit == [i \in 1..Len(records) |->
                       http_contact_matches(search_term, FieldsOf(records[i]))]
            idx == SelectIdx(hit, 1, Len(records))
            matching_contacts ==
                [j \in 1..Len(idx) |->
                    [id    |-> Get(records[idx[j]], "id", "None"),
                     name  |-> Get(FieldsOf(records[idx[j]]), "Name", NoneText),
                     email |-> Get(FieldsOf(records[idx[j]]), "Email", NoneText),
                     phone |-> Get(FieldsOf(records[idx[j]]), "Phone", NoneText)]]
        IN  Return(Json([contacts |-> matching_contacts,
                         count |-> Len(matching_contacts)])))

\* POST /reminders
http_create_reminder(reminder_data, rs) ==
    except_Exception(
        LET title == Get(reminder_data, "title", "None")
            reminder_datetime == Get(reminder_data, "datetime", None)
            notes == Get(reminder_data, "notes", "")
            parsed == fromisoformat(RemoveZ(reminder_datetime))
            event_data ==
                [summary |-> <<"Reminder: ", title>>,
                 start |-> [dateTime |-> reminder_datetime, timeZone |-> TimeZone],
                 end |-> [dateTime |->
                              isoformat(AddMinutes(parsed.dt, ReminderMinutes)) \o <<TokZ>>,
                          timeZone |-> TimeZone],
                 description |-> notes]
            task_fields ==
                [k \in {"Name", "Status", "Due Date", "Notes"} |->
                    CASE k = "Name" -> <<"Reminder: ", title>>
                      [] k = "Status" -> "Pending"
                      [] k = "Due Date" -> BeforeT(reminder_datetime)
                      [] k = "Notes" -> notes]
        IN  IF "datetime" \notin DOMAIN reminder_data THEN AttributeError
            ELSE IF ~parsed.ok THEN ValueError
            ELSE IF Len(rs) = 0 THEN DoCall(create_google_event_call(event_data))
            ELSE IF rs[1].kind = "raise" THEN Reraise(rs[1])
            ELSE IF Len(rs) = 1
                 THEN DoCall(create_airtable_record_call("Tasks", task_fields))
            ELSE IF rs[2].kind = "raise" THEN Reraise(rs[2])
            ELSE Return(Json([success |-> TRUE,
                              calendar_created |-> ~IsNone(rs[1]),
                              airtable_created |-> ~IsNone(rs[2]),
                              calendar_event |-> rs[1].val,
                              airtable_task |-> rs[2].val])))

\* the route table of the FastAPI app
app_route(route, args, utcnow, rs) ==
    CASE route = "POST /calendar/events" -> http_create_calendar_event(args, rs)
      [] route = "GET /calendar/events" -> http_get_calendar_events(args, utcnow, rs)
      [] route = "POST /calendar/check-availability" -> http_check_availability(args, rs)
      [] route = "GET /airtable/{table_name}" -> http_get_airtable_records(args, rs)
      [] route = "POST /airtable/{table_name}" -> http_create_airtable_record(args, rs)
      [] route = "POST /tasks" -> http_create_task(args, rs)
      [] route = "POST /contacts/search" -> http_search_contacts(args, rs)
      [] route = "POST /reminders" -> http_create_reminder(args, rs)

(***************************************************************************)
(* Dispatch                                                                *)
(***************************************************************************)
Handler(r, rs) ==
    IF r.adapter = "tool" THEN handle_call_tool(r.op, r.args, rs)
    ELSE IF r.adapter = "resource" THEN handle_read_resource(r.op, r.clock, rs)
    ELSE app_route(r.op, r.args, r.clock, rs)

(***************************************************************************)
(* Requests                                                                *)
(***************************************************************************)
Titles == {"Call Bob"}
Emails == {"ann@example.com", "bob@example.com"}

Stamp(y, m, d, h, mi, zone) == <<Tok("date", y, m, d), TokT, Tok("time", h, mi, 0)>> \o zone
Junk == <<TokJunk>>

CalendarEventArgs ==
    {Restrict(f, S) :
        f \in [title : Titles,
               start_datetime : {Stamp(2024, 1, 1, 10, 0, <<TokZ>>), Junk},
               end_datetime : {Stamp(2024, 1, 1, 11, 0, <<TokZ>>)},
               description : {"agenda"},
               attendees : SeqsUpTo(Emails, MaxAttendees)],
        S \in SUBSET {"title", "start_datetime", "end_datetime", "description", "attendees"}}

AvailabilityArgs ==
    {Restrict(f, S) :
        f \in [date : {<<Tok("date", 2024, 2, 29)>>, <<Tok("date", 2023, 12, 31)>>, Junk},
               start_time : {<<Tok("hm", 10, 0, 0)>>, <<Tok("hm", 23, 30, 0)>>, Junk},
               duration_minutes : {30, 90}],
        S \in SUBSET {"date", "start_time", "duration_minutes"}}

TaskArgs ==
    {Restrict(f, S) :
        f \in [name : {"Write report"}, status : {"Open"}, due_date : {"2024-03-01"},
               priority : {"High"}, notes : {"draft"}],
        S \in SUBSET {"name", "status", "due_date", "priority", "notes"}}

SearchTerms == {<<>>, <<"a">>, <<"A", "B">>, <<"b", "a">>, <<"x">>}
SearchArgs ==
    {Restrict(f, S) : f \in [search_term : SearchTerms], S \in SUBSET {"search_term"}}

ReminderInstants ==
    {<<2024, 1, 1, 10, 0>>, <<2024, 1, 1, 10, 50>>, <<2024, 2, 29, 23, 50>>,
     <<2023, 12, 31, 23, 50>>}
Zones == {<<TokZ>>, <<>>, <<Tok("off", 2, 0, 0)>>}
ReminderTexts ==
    {Stamp(i[1], i[2], i[3], i[4], i[5], z) : i \in ReminderInstants, z \in Zones}
        \cup {Junk}
ReminderArgs ==
    {Restrict(f, S) :
        f \in [title : Titles, datetime : ReminderTexts, notes : {"bring slides"}],
        S \in SUBSET {"title", "datetime", "notes"}}

EventBodies ==
    {[summary |-> "Demo",
      start |-> [dateTime |-> Stamp(2024, 1, 1, 10, 0, <<TokZ>>)],
      end |-> [dateTime |-> Stamp(2024, 1, 1, 11, 0, <<TokZ>>)]],
     [summary |-> "No times"]}

EventQueries ==
    {Restrict(f, S) :
        f \in [start_time : {Stamp(2024, 1, 1, 0, 0, <<TokZ>>)},
               end_time : {Stamp(2024, 1, 2, 0, 0, <<TokZ>>)}],
        S \in SUBSET {"start_time", "end_time"}}

TableNames == {"Tasks", "Contacts", "Payroll"}
RecordQueries ==
    {Restrict(f, S \cup {"table_name"}) :
        f \in [table_name : TableNames, filter_formula : {<<"{Status}='Open'">>}],
        S \in SUBSET {"filter_formula"}}
RecordPosts ==
    [table_name : TableNames, fields : {[Name |-> "Ann"], [Name |-> "Ann", Notes |-> "x"]}]

\* URIs a client may ask to read: the advertised ones and others
ReadUris ==
    {list_resources[i] : i \in 1..Len(list_resources)}
        \cup {"table://tasks", "table://contacts", "calendar://month"}

NoReq == [adapter |-> "", op |-> "", args |-> <<>>, clock |-> DT(0, 0, 0, 0, 0, 0, <<>>)]
Clocks == {DT(2024, 2, 26, 9, 30, 0, <<>>)}

(***************************************************************************)
(* State machine                                                           *)
(***************************************************************************)
EmptyStore == [tasks |-> <<>>, events |-> <<>>]
\* n: how many fetches in a row gave these records, counted up to two
NoFetch == [valid |-> FALSE, records |-> <<>>, n |-> 0]
NothingFetched == [any |-> NoFetch, ok |-> NoFetch]

Init ==
    /\ pc = "idle"
    /\ req = NoReq
    /\ calls = <<>>
    /\ outcomes = <<>>
    /\ results = <<>>
    /\ resp = NoResp
    /\ store = EmptyStore
    /\ fetched = NothingFetched
    /\ created = {}
    /\ slots = <<>>
    /\ wire = <<>>

\* the handler of request r runs from its start to its first await or to its end
Begin(r) ==
    LET step == Handler(r, <<>>) IN
    /\ pc = "idle"
    /\ req' = r
    /\ calls' = IF step.next = "call" THEN <<step.call>> ELSE <<>>
    /\ outcomes' = <<>>
    /\ results' = <<>>
    /\ pc' = IF step.next = "call" THEN "waiting" ELSE "done"
    /\ resp' = step.resp
    /\ UNCHANGED <<remote, conc>>

Request(adapter, op, args) ==
    \E clock \in Clocks : Begin([adapter |-> adapter, op |-> op, args |-> args, clock |-> clock])

CallCreateCalendarEvent ==
    /\ pc = "idle"
    /\ \E a \in CalendarEventArgs : Request("tool", "create_calendar_event", a)

CallCheckAvailability ==
    /\ pc = "idle"
    /\ \E a \in AvailabilityArgs : Request("tool", "check_availability", a)

CallCreateAirtableTask ==
    /\ pc = "idle"
    /\ \E a \in TaskArgs : Request("tool", "create_airtable_task", a)

CallSearchContacts ==
    /\ pc = "idle"
    /\ \E a \in SearchArgs : Request("tool", "search_contacts", a)

CallCreateReminder ==
    /\ pc = "idle"
    /\ \E a \in ReminderArgs : Request("tool", "create_reminder", a)

PostCalendarEvents ==
    /\ pc = "idle"
    /\ \E a \in EventBodies : Request("http", "POST /calendar/events", a)

GetCalendarEvents ==
    /\ pc = "idle"
    /\ \E a \in EventQueries : Request("http", "GET /calendar/events", a)

PostCheckAvailability ==
    /\ pc = "idle"
    /\ \E a \in AvailabilityArgs : Request("http", "POST /calendar/check-availability", a)

GetAirtable ==
    /\ pc = "idle"
    /\ \E a \in RecordQueries : Request("http", "GET /airtable/{table_name}", a)

PostAirtable ==
    /\ pc = "idle"
    /\ \E a \in RecordPosts : Request("http", "POST /airtable/{table_name}", a)

PostTasks ==
    /\ pc = "idle"
    /\ \E a \in TaskArgs : Request("http", "POST /tasks", a)

PostContactsSearch ==
    /\ pc = "idle"
    /\ \E a \in SearchArgs : Request("http", "POST /contacts/search", a)

PostReminders ==
    /\ pc = "idle"
    /\ \E a \in ReminderArgs : Request("http", "POST /reminders", a)

ReadResource ==
    /\ pc = "idle"
    /\ \E uri \in ReadUris : Request("resource", uri, <<>>)

CallUnknownTool ==
    /\ pc = "idle"
    /\ Request("tool", "no_such_tool", <<>>)

\* the upstream answers the outstanding call (or the transport fails); the service
\* operation completes and the handler runs on to its next await or to its end
Resume(o) ==
    LET r    == ServiceResult(calls[Len(calls)], o)
        rs   == Append(results, r)
        step == Handler(req, rs)
    IN  /\ outcomes' = Append(outcomes, o)
        /\ results' = rs
        /\ calls' = IF step.next = "call" THEN Append(calls, step.call) ELSE calls
        /\ pc' = IF step.next = "call" THEN "waiting" ELSE "done"
        /\ resp' = step.resp
        /\ UNCHANGED req

Deliver ==
    /\ pc = "waiting"
    /\ \E o \in Outcomes(calls[Len(calls)]) : Resume(o)
    /\ UNCHANGED <<remote, conc>>

\* the response is delivered; the adapter takes the next request
NextRequest ==
    /\ pc = "done"
    /\ pc' = "idle"
    /\ req' = NoReq
    /\ calls' = <<>>
    /\ outcomes' = <<>>
    /\ results' = <<>>
    /\ resp' = NoResp
    /\ UNCHANGED <<remote, conc>>

Next ==
    \/ CallCreateCalendarEvent
    \/ CallCheckAvailability
    \/ CallCreateAirtableTask
    \/ CallSearchContacts
    \/ CallCreateReminder
    \/ CallUnknownTool
    \/ ReadResource
    \/ PostCalendarEvents
    \/ GetCalendarEvents
    \/ PostCheckAvailability
    \/ GetAirtable
    \/ PostAirtable
    \/ PostTasks
    \/ PostContactsSearch
    \/ PostReminders
    \/ Deliver
    \/ NextRequest

Spec == Init /\ [][Next]_vars

(***************************************************************************)
(* The adapters in front of a calendar and a Tasks table that keep what    *)
(* they are sent: the upstream answers each call from its content          *)
(***************************************************************************)
\* the upstream stores what call carries
Apply(call, st) ==
    IF call.verb # "POST" THEN st
    ELSE IF call.svc = "calendar"
    THEN [st EXCEPT !.events = Append(@, With(call.json, "id", "evt"))]
    ELSE IF call.table = "Tasks"
    THEN [st EXCEPT !.tasks =
              Append(@, [id |-> "rec", fields |-> Get(call.json, "fields", <<>>)])]
    ELSE st

\* the upstream has room for what call carries
RoomFor(call, st) ==
    IF call.svc = "calendar" THEN Len(st.events) < MaxStore ELSE Len(st.tasks) < MaxStore

\* the body of a listing
Listing(call, st) ==
    IF call.svc = "calendar" THEN [items |-> st.events] ELSE [records |-> st.tasks]

\* <<outcome, remote state after>>: a read is answered from the content and
\* leaves it alone; a create is refused, or applied and then answered, and its
\* answer may be lost or undecodable
StoreOutcomes(call, st) ==
    IF call.verb = "GET"
    THEN {<<Fault, st>>, <<Response(200, FALSE, <<>>), st>>, <<Response(401, TRUE, <<>>), st>>,
          <<Response(200, TRUE, Listing(call, st)), st>>}
    ELSE {<<Fault, st>>, <<Response(401, TRUE, <<>>), st>>}
            \cup (IF RoomFor(call, st)
                  THEN {<<o, Apply(call, st)>> :
                            o \in {Fault, Response(200, FALSE, <<>>)}
                                      \cup {Response(200, TRUE, b) : b \in Bodies(call)}}
                  ELSE {})

\* the outstanding call is get_airtable_records("Tasks")
IsTasksFetch(call) ==
    call = get_airtable_records_call("Tasks", None)

StoreTaskArgs == {[name |-> "Write report", status |-> "Open"], [name |-> "Call Bob"]}
StoreEventArgs ==
    {[title |-> "Demo", start_datetime |-> Stamp(2024, 1, 1, 10, 0, <<TokZ>>),
      end_datetime |-> Stamp(2024, 1, 1, 11, 0, <<TokZ>>)]}

StoreCreateTask ==
    /\ pc = "idle"
    /\ \E a \in StoreTaskArgs : Request("tool", "create_airtable_task", a)

StoreCreateEvent ==
    /\ pc = "idle"
    /\ \E a \in StoreEventArgs : Request("tool", "create_calendar_event", a)

StoreReadTasks ==
    /\ pc = "idle"
    /\ Request("resource", "airtable://tasks", <<>>)

StoreGetTasks ==
    /\ pc = "idle"
    /\ Request("http", "GET /airtable/{table_name}", [table_name |-> "Tasks"])

StoreReadWeek ==
    /\ pc = "idle"
    /\ Request("resource", "calendar://week", <<>>)

\* someone else adds a row to the Tasks table
ExternalWrite ==
    /\ Len(store.tasks) < MaxStore
    /\ store' = [store EXCEPT !.tasks =
                    Append(@, [id |-> "ext", fields |-> [Name |-> "Elsewhere"]])]
    /\ fetched' = NothingFetched
    /\ UNCHANGED <<pc, req, calls, outcomes, results, resp, created, conc>>

StoreDeliver ==
    /\ pc = "waiting"
    /\ \E p \in StoreOutcomes(calls[Len(calls)], store) :
          LET call == calls[Len(calls)]
              o    == p[1]
              r    == ServiceResult(call, o)
              this(last) == [valid |-> TRUE, records |-> r.val,
                             n |-> IF last.n = 0 THEN 1 ELSE 2]
          IN  /\ Resume(o)
              /\ store' = p[2]
              /\ fetched' =
                    IF p[2] # store THEN NothingFetched
                    ELSE IF IsTasksFetch(call) /\ r.kind = "value"
                    THEN [any |-> this(fetched.any),
                          ok  |-> IF ~o.fault /\ o.status = 200
                                  THEN this(fetched.ok) ELSE fetched.ok]
                    ELSE fetched
              /\ created' =
                    IF p[2] # store /\ req.op = "create_airtable_task"
                    THEN created \cup {call.json.fields} ELSE created
    /\ UNCHANGED conc

InitStore == Init

NextStore ==
    \/ StoreCreateTask
    \/ StoreCreateEvent
    \/ StoreReadTasks
    \/ StoreGetTasks
    \/ StoreReadWeek
    \/ ExternalWrite
    \/ StoreDeliver
    \/ NextRequest

SpecStore == InitStore /\ [][NextStore]_vars

(***************************************************************************)
(* Requests handled concurrently on one event loop: a handler runs until   *)
(* it awaits an outbound response, then another may run                    *)
(***************************************************************************)
Slots == 1..MaxRequests

IdleSlot == [pc |-> "idle", req |-> NoReq, session |-> 0, results |-> <<>>, resp |-> NoResp]

InitConc ==
    /\ pc = "idle"
    /\ req = NoReq
    /\ calls = <<>>
    /\ outcomes = <<>>
    /\ results = <<>>
    /\ resp = NoResp
    /\ store = EmptyStore
    /\ fetched = NothingFetched
    /\ created = {}
    /\ slots = [i \in Slots |-> IdleSlot]
    /\ wire = <<>>

RECURSIVE FirstFree(_, _)
FirstFree(used, n) == IF n \in used THEN FirstFree(used, n + 1) ELSE n

\* mutant: one transport session serves every outbound call
ClientSession_shared(w) == 1

\* aiohttp.ClientSession(): each outbound call opens a session of its own
ClientSession(w) == FirstFree({w[k].session : k \in 1..Len(w)}, 1)

\* the outbound call of a step, put on the wire for request i
Sent(i, w, call) ==
    Append(w, [owner |-> i, session |-> ClientSession(w), call |-> call,
               answered |-> FALSE, outcome |-> Fault])

\* request i after its handler ran a step with results rs
SlotAfter(i, r, rs, w, step) ==
    [pc |-> IF step.next = "call" THEN "waiting" ELSE "done",
     req |-> r,
     session |-> IF step.next = "call" THEN ClientSession(w) ELSE 0,
     results |-> rs,
     resp |-> step.resp]

ConcReminderArgs ==
    {[title |-> "Demo", datetime |-> Stamp(2024, 1, 1, 10, 0, <<>>)],
     [title |-> "Lunch", datetime |-> Stamp(2024, 2, 29, 23, 50, <<>>), notes |-> "bring slides"]}

\* the requests in flight are served by the adapter of this process
SameProcess(adapter) ==
    \A j \in Slots : slots[j].pc # "idle" => slots[j].req.adapter = adapter

\* request r is accepted as the i-th of the requests handled together; its
\* handler runs from its start to its first await or to its end
ConcBegin(i, r) ==
    LET step == Handler(r, <<>>) IN
    /\ slots[i].pc = "idle"
    /\ \A j \in 1..(i - 1) : slots[j].pc # "idle"
    /\ slots' = [slots EXCEPT ![i] = SlotAfter(i, r, <<>>, wire, step)]
    /\ wire' = IF step.next = "call" THEN Sent(i, wire, step.call) ELSE wire
    /\ UNCHANGED <<pc, req, calls, outcomes, results, resp, remote>>

ConcCreateReminder ==
    /\ SameProcess("tool")
    /\ \E i \in Slots, a \in ConcReminderArgs, clock \in Clocks :
          ConcBegin(i, [adapter |-> "tool", op |-> "create_reminder", args |-> a,
                        clock |-> clock])

ConcPostReminders ==
    /\ SameProcess("http")
    /\ \E i \in Slots, a \in ConcReminderArgs, clock \in Clocks :
          ConcBegin(i, [adapter |-> "http", op |-> "POST /reminders", args |-> a,
                        clock |-> clock])

\* the upstream answers call k of the wire (or its transport fails); the handler
\* awaiting on that session resumes and runs to its next await or to its end
ConcDeliver ==
    \E k \in 1..Len(wire) :
        /\ ~wire[k].answered
        /\ \E o \in Outcomes(wire[k].call), i \in Slots :
              /\ slots[i].pc = "waiting"
              /\ slots[i].session = wire[k].session
              /\ LET r    == ServiceResult(wire[k].call, o)
                     rs   == Append(slots[i].results, r)
                     step == Handler(slots[i].req, rs)
                     w    == [wire EXCEPT ![k].answered = TRUE, ![k].outcome = o]
                 IN  /\ slots' = [slots EXCEPT ![i] = SlotAfter(i, slots[i].req, rs, w, step)]
                     /\ wire' = IF step.next = "call" THEN Sent(i, w, step.call) ELSE w
        /\ UNCHANGED <<pc, req, calls, outcomes, results, resp, remote>>

NextConc ==
    \/ ConcCreateReminder
    \/ ConcPostReminders
    \/ ConcDeliver

SpecConc == InitConc /\ [][NextConc]_vars

(***************************************************************************)
(* Properties                                                              *)
(***************************************************************************)
IsTool(name) == req.adapter = "tool" /\ req.op = name
IsRoute(route) == req.adapter = "http" /\ req.op = route

\* every await of the request so far has returned a value (none has raised)
AllReturned == \A i \in 1..Len(results) : results[i].kind # "raise"

\* the upstream accepted call i: it answered 200 with a decodable body
Succeeded(i) == ~outcomes[i].fault /\ outcomes[i].status = 200 /\ outcomes[i].parses

RECURSIVE DaysBeforeMonth(_, _)
DaysBeforeMonth(y, m) == IF m = 1 THEN 0 ELSE DaysBeforeMonth(y, m - 1) + DaysInMonth(y, m - 1)
RECURSIVE DaysBeforeYear(_)
DaysBeforeYear(y) ==
    IF y <= 2023 THEN 0 ELSE DaysBeforeYear(y - 1) + (IF IsLeap(y - 1) THEN 366 ELSE 365)

\* a well-formed timestamp text: date, "T", time, and at most one zone designator
WellFormedStamp(text) ==
    /\ Len(text) \in {3, 4}
    /\ Kind(text[1]) = "date" /\ Kind(text[2]) = "T" /\ Kind(text[3]) = "time"
    /\ Len(text) = 4 => Kind(text[4]) \in {"Z", "off"}

\* the wall-clock minute a well-formed timestamp text names, counted from 2023-01-01T00:00
WallMinutes(text) ==
    (DaysBeforeYear(text[1][2]) + DaysBeforeMonth(text[1][2], text[1][3]) + text[1][4] - 1) * 1440
        + text[3][2] * 60 + text[3][3]

\* C1: for each of the four service operations, every non-success outcome of the
\* outbound call (a status other than 200, a transport fault, an undecodable body)
\* gives the caller the empty list (fetches) or None (creates); no error is raised.
C1_FailureIsAbsence ==
    \A i \in 1..Len(results) :
        ~Succeeded(i) =>
            results[i] = IF calls[i].verb = "GET" THEN Value(<<>>) ELSE NoneValue

IsAvailabilityRequest ==
    IsTool("check_availability") \/ IsRoute("POST /calendar/check-availability")

\* C2: a check_availability request (tool and HTTP) whose event fetch returned
\* fetched the window [start, start + duration_minutes]; it reports available
\* exactly when the fetch returned no event, and otherwise lists one conflict per
\* returned event.
C2_AvailableIffNoEvents ==
    (pc = "done" /\ IsAvailabilityRequest /\ Len(results) = 1 /\ AllReturned) =>
        LET events    == results[1].val
            duration  == Get(req.args, "duration_minutes", 60)
            available == IF req.adapter = "tool"
                         THEN resp.msg[Len(resp.msg)] = " is AVAILABLE!"
                         ELSE resp.data.available
            conflicts == IF req.adapter = "tool"
                         THEN (IF available THEN <<>> ELSE resp.data.conflict_details)
                         ELSE resp.data.conflicts
            window    == calls[1].params
        IN  /\ resp.kind \in {"text", "json"}
            /\ available <=> Len(events) = 0
            /\ Len(conflicts) = Len(events)
            /\ Len(calls) = 1 /\ calls[1].svc = "calendar" /\ calls[1].verb = "GET"
            /\ window.timeMin =
                   <<req.args["date"][1], TokT,
                     Tok("time", req.args["start_time"][1][2], req.args["start_time"][1][3], 0),
                     TokZ>>
            /\ WellFormedStamp(window.timeMax)
            /\ WallMinutes(window.timeMax) - WallMinutes(window.timeMin) = duration

\* a slot running over midnight into the next month with two events in it
C2_Witness ==
    /\ pc = "done" /\ IsRoute("POST /calendar/check-availability")
    /\ Len(results) = 1 /\ AllReturned /\ Len(results[1].val) = 2
    /\ resp.kind = "json" /\ ~resp.data.available /\ Len(resp.data.conflicts) = 2
    /\ calls[1].params.timeMin = Stamp(2024, 2, 29, 23, 30, <<TokZ>>)
    /\ calls[1].params.timeMax = Stamp(2024, 3, 1, 1, 0, <<TokZ>>)

IsReminderRequest == IsTool("create_reminder") \/ IsRoute("POST /reminders")

WellFormedReminder ==
    /\ {"title", "datetime"} \subseteq DOMAIN req.args
    /\ req.args["datetime"] # Junk

\* C4: a reminder request (tool and HTTP) with well-formed input issues exactly two
\* outbound calls, one after the other: the calendar create, answered before the
\* table-store create is issued; the table-store create follows whatever the
\* calendar create's outcome; nothing is retried or undone.
C4_TwoCallsInOrder ==
    (IsReminderRequest /\ WellFormedReminder) =>
        /\ Len(calls) <= Len(outcomes) + 1
        /\ Len(calls) <= 2
        /\ Len(calls) >= 1 => (calls[1].svc = "calendar" /\ calls[1].verb = "POST")
        /\ Len(calls) >= 2 => (calls[2].svc = "table" /\ calls[2].verb = "POST")
        /\ pc = "done" => Len(calls) = 2

OptionalTaskKey(k) ==
    CASE k = "status" -> "Status"
      [] k = "due_date" -> "Due Date"
      [] k = "priority" -> "Priority"
      [] k = "notes" -> "Notes"

\* C5: the field map a create_airtable_task call sends holds "Name" and exactly the
\* keys of the optional arguments that were given, each with the given value; an
\* omitted argument is no key of the map.
C5_TaskFieldMap ==
    (IsTool("create_airtable_task") /\ Len(calls) >= 1) =>
        LET fields == calls[1].json.fields
            given  == DOMAIN req.args \ {"name"}
        IN  /\ calls[1].svc = "table" /\ calls[1].verb = "POST" /\ calls[1].table = "Tasks"
            /\ DOMAIN fields = {"Name"} \cup {OptionalTaskKey(k) : k \in given}
            /\ fields["Name"] = req.args["name"]
            /\ \A k \in given : fields[OptionalTaskKey(k)] = req.args[k]

\* a task with a priority and nothing else
C5_Witness ==
    /\ IsTool("create_airtable_task") /\ pc = "done" /\ Len(calls) = 1
    /\ DOMAIN req.args = {"name", "priority"}
    /\ DOMAIN calls[1].json.fields = {"Name", "Priority"}

\* C6: a reminder (tool and HTTP) for (title, datetime) sends an event titled
\* "Reminder: <title>" that starts at the given datetime and ends exactly 15 minutes
\* later, and a task named "Reminder: <title>" with status "Pending" and the date
\* part of the given datetime as due date.
C6_ReminderPayloads ==
    (IsReminderRequest /\ "title" \in DOMAIN req.args /\ Len(calls) >= 1) =>
        LET event == calls[1].json
            given == req.args["datetime"]
            name  == <<"Reminder: ", req.args["title"]>>
        IN  /\ event.summary = name
            /\ event.start.dateTime = given
            /\ WellFormedStamp(event.end.dateTime)
            /\ WallMinutes(event.end.dateTime) - WallMinutes(given) = 15
            /\ Len(calls) >= 2 =>
                   /\ calls[2].json.fields["Name"] = name
                   /\ calls[2].json.fields["Status"] = "Pending"
                   /\ calls[2].json.fields["Due Date"] = <<given[1]>>

IsSearchRequest == IsTool("search_contacts") \/ IsRoute("POST /contacts/search")

SameLetter(a, b) == a = b \/ {a, b} = {"a", "A"} \/ {a, b} = {"b", "B"}
\* term occurs in text, letter case ignored
FoldContains(term, text) ==
    \E i \in 0..(Len(text) - Len(term)) :
        \A j \in 1..Len(term) : SameLetter(term[j], text[i + j])
RecordMatches(term, record) ==
    \/ FoldContains(term, Get(FieldsOf(record), "Name", <<>>))
    \/ FoldContains(term, Get(FieldsOf(record), "Email", <<>>))

\* C7: a contact search (tool and HTTP) returns exactly the fetched records whose
\* name or email contains the term, letter case ignored, in the store's order; the
\* empty term matches every record, also one without Name or Email; the count
\* reported is the number of matches.
C7_SearchResult ==
    (pc = "done" /\ IsSearchRequest /\ Len(results) = 1 /\ AllReturned) =>
        LET records  == results[1].val
            term     == Get(req.args, "search_term", <<>>)
            hits     == {i \in 1..Len(records) : RecordMatches(term, records[i])}
            Rank(i)  == Cardinality({k \in hits : k <= i})
            contacts == resp.data.contacts
            absent(what) == IF req.adapter = "tool" THEN <<what>> ELSE NoneText
        IN  /\ resp.kind \in {"text", "json"}
            /\ Len(contacts) = Cardinality(hits)
            /\ \A i \in hits :
                   /\ contacts[Rank(i)].name =
                          Get(FieldsOf(records[i]), "Name", absent("No name"))
                   /\ contacts[Rank(i)].email =
                          Get(FieldsOf(records[i]), "Email", absent("No email"))
            /\ term = <<>> => Len(contacts) = Len(records)
            /\ req.adapter = "http" => resp.data.count = Cardinality(hits)
            /\ (req.adapter = "tool" /\ hits # {}) => resp.msg[2] = Cardinality(hits)

\* "AB" finds the second record, stored as "Ab", and not the first, stored as "ba"
C7_Witness ==
    /\ pc = "done" /\ IsTool("search_contacts") /\ Len(results) = 1 /\ AllReturned
    /\ req.args["search_term"] = <<"A", "B">>
    /\ Len(results[1].val) = 2
    /\ results[1].val[1] = [id |-> "rec", fields |-> [Name |-> <<"b", "a">>, Phone |-> <<"5">>]]
    /\ Get(FieldsOf(results[1].val[2]), "Name", <<>>) = <<"A", "b">>
    /\ Len(resp.data.contacts) = 1
    /\ resp.data.contacts[1].name = <<"A", "b">>

\* C8: the event a create_calendar_event call sends carries the fixed zone label on
\* start and end; given attendees become {email: address} entries, as many and in
\* the order given; attendees and description are keys of the event only when given.
C8_EventObject ==
    (IsTool("create_calendar_event") /\ Len(calls) >= 1) =>
        LET event == calls[1].json
            args  == req.args
        IN  /\ calls[1].svc = "calendar" /\ calls[1].verb = "POST"
            /\ event.start.timeZone = "America/New_York"
            /\ event.end.timeZone = "America/New_York"
            /\ event.summary = args["title"]
            /\ event.start.dateTime = args["start_datetime"]
            /\ event.end.dateTime = args["end_datetime"]
            /\ "attendees" \in DOMAIN event <=> "attendees" \in DOMAIN args
            /\ "description" \in DOMAIN event <=> "description" \in DOMAIN args
            /\ "attendees" \in DOMAIN args =>
                   /\ Len(event.attendees) = Len(args["attendees"])
                   /\ \A i \in 1..Len(args["attendees"]) :
                          event.attendees[i] = [email |-> args["attendees"][i]]

\* two different attendees and no description
C8_Witness ==
    /\ IsTool("create_calendar_event") /\ pc = "done" /\ Len(calls) = 1
    /\ "description" \notin DOMAIN req.args
    /\ "attendees" \in DOMAIN req.args
    /\ req.args["attendees"] = <<"bob@example.com", "ann@example.com">>
    /\ calls[1].json.attendees = <<[email |-> "bob@example.com"], [email |-> "ann@example.com"]>>
    /\ "description" \notin DOMAIN calls[1].json

CreateRoutes == {"POST /calendar/events", "POST /airtable/{table_name}", "POST /tasks"}

\* the input of an HTTP request makes its handler raise before any outbound call
HttpInputRaises ==
    \/ /\ req.op = "POST /calendar/check-availability"
       /\ \/ ~({"date", "start_time"} \subseteq DOMAIN req.args)
          \/ req.args["date"] = Junk
          \/ req.args["start_time"] = Junk
    \/ /\ req.op = "POST /reminders"
       /\ ("datetime" \notin DOMAIN req.args \/ req.args["datetime"] = Junk)

\* the handler of the HTTP request failed: its input made it raise, an awaited call
\* raised, or the create of a create route came back absent
HttpFailed ==
    \/ HttpInputRaises
    \/ /\ Len(results) > 0
       /\ \/ results[Len(results)].kind = "raise"
          \/ req.op \in CreateRoutes /\ IsNone(results[1])

\* str(e) of the failure
HttpFailureText ==
    IF Len(results) > 0 /\ results[Len(results)].kind = "raise"
    THEN results[Len(results)].val[2]
    ELSE IF Len(results) > 0
    THEN (CASE req.op = "POST /calendar/events" -> "400: Failed to create event"
            [] req.op = "POST /airtable/{table_name}" -> "400: Failed to create record"
            [] req.op = "POST /tasks" -> "400: Failed to create task")
    ELSE IF req.op = "POST /reminders" /\ "datetime" \notin DOMAIN req.args
    THEN "'NoneType' object has no attribute 'replace'"
    ELSE "Invalid isoformat string"

\* C9: every failure inside an HTTP endpoint handler, an absent create result as
\* well as a raised exception, is answered with the one failure status, 500, and
\* the error's text as the message; a handler that did not fail answers 200.
C9_SingleFailureStatus ==
    (req.adapter = "http" /\ pc = "done") =>
        IF HttpFailed
        THEN resp.kind = "http_error" /\ resp.status = 500 /\ resp.msg = <<HttpFailureText>>
        ELSE resp.kind = "json" /\ resp.status = 200

\* the table store refuses the task of POST /tasks
C9_Witness ==
    /\ IsRoute("POST /tasks") /\ pc = "done" /\ Len(results) = 1
    /\ ~outcomes[1].fault /\ outcomes[1].status = 401 /\ IsNone(results[1])
    /\ resp.kind = "http_error" /\ resp.status = 500
    /\ resp.msg = <<"400: Failed to create task">>

FiveTools ==
    {"create_calendar_event", "check_availability", "create_airtable_task",
     "search_contacts", "create_reminder"}

\* the `required` list of each tool's input schema
RequiredFields(name) ==
    CASE name = "create_calendar_event" -> {"title", "start_datetime", "end_datetime"}
      [] name = "check_availability" -> {"date", "start_time", "duration_minutes"}
      [] name = "create_airtable_task" -> {"name"}
      [] name = "search_contacts" -> {"search_term"}
      [] name = "create_reminder" -> {"title", "datetime"}

MissingRequired == ~(RequiredFields(req.op) \subseteq DOMAIN req.args)

\* argument `key` is given and is no date/time text
Malformed(key) == key \in DOMAIN req.args /\ req.args[key] = Junk

\* C10 as claimed: a tool call that lacks a required field or carries a malformed
\* date/time issues no outbound call, for each of the five tools.
C10_RejectedBeforeCall ==
    (/\ req.adapter = "tool"
     /\ req.op \in FiveTools
     /\ \/ MissingRequired
        \/ req.op = "create_calendar_event"
               /\ (Malformed("start_datetime") \/ Malformed("end_datetime"))
        \/ req.op = "check_availability" /\ (Malformed("date") \/ Malformed("start_time"))
        \/ req.op = "create_reminder" /\ Malformed("datetime"))
        => calls = <<>>

\* C10 as amended: a tool call that lacks a required field, or whose date/time the
\* handler itself parses (check_availability's date and start_time, create_reminder's
\* datetime) is malformed, raises and issues no outbound call.
C10_RejectedWhenParsed ==
    (/\ req.adapter = "tool"
     /\ req.op \in FiveTools
     /\ \/ MissingRequired
        \/ req.op = "check_availability" /\ (Malformed("date") \/ Malformed("start_time"))
        \/ req.op = "create_reminder" /\ Malformed("datetime"))
        => /\ calls = <<>>
           /\ pc = "done"
           /\ resp.kind = "exception"

\* a reminder whose datetime is no timestamp is rejected with a ValueError
C10_Witness ==
    /\ IsTool("create_reminder") /\ pc = "done"
    /\ {"title", "datetime"} \subseteq DOMAIN req.args
    /\ req.args["datetime"] = Junk
    /\ calls = <<>>
    /\ resp.kind = "exception" /\ resp.msg[1] = "ValueError"

IsRead(uri) == req.adapter = "resource" /\ req.op = uri

Advertised == {list_resources[i] : i \in 1..Len(list_resources)}

ResourceHeading(uri) ==
    CASE uri = "calendar://today" -> "Today's Schedule:\n"
      [] uri = "calendar://week" -> "This Week's Schedule:\n"
      [] uri = "airtable://tasks" -> "Tasks from Airtable:\n"
      [] uri = "airtable://contacts" -> "Contacts from Airtable:\n"
ResourceEmptySentence(uri) ==
    CASE uri = "calendar://today" -> "No events scheduled for today."
      [] uri = "calendar://week" -> "No events scheduled for this week."
      [] uri = "airtable://tasks" -> "No tasks found in Airtable."
      [] uri = "airtable://contacts" -> "No contacts found in Airtable."

MirroredFlows ==
    {<<"create_airtable_task", "POST /tasks">>,
     <<"create_reminder", "POST /reminders">>,
     <<"search_contacts", "POST /contacts/search">>,
     <<"check_availability", "POST /calendar/check-availability">>}

InFlow(f) ==
    \/ req.adapter = "tool" /\ req.op = f[1]
    \/ req.adapter = "http" /\ req.op = f[2]

\* the same logical input handed to the other adapter
Mirror(r, f) ==
    [r EXCEPT !.adapter = IF r.adapter = "tool" THEN "http" ELSE "tool",
              !.op = IF r.adapter = "tool" THEN f[2] ELSE f[1]]

\* the other adapter, given the same input and the same upstream results,
\* issues call for call what the request in flight has issued, and stops
\* calling where it stopped
SameCalls(f) ==
    /\ \A i \in 1..Len(calls) :
           LET st == Handler(Mirror(req, f), SubSeq(results, 1, i - 1))
           IN  st.next = "call" /\ st.call = calls[i]
    /\ pc = "done" => Handler(Mirror(req, f), results).next # "call"

\* the input carries every field the tool's schema requires
Complete(f) ==
    (CASE f[1] = "create_airtable_task" -> {"name"}
       [] f[1] = "create_reminder" -> {"title", "datetime"}
       [] f[1] = "search_contacts" -> {"search_term"}
       [] f[1] = "check_availability" -> {"date", "start_time", "duration_minutes"})
        \subseteq DOMAIN req.args

\* C12 as claimed: for the same input and the same upstream behaviour, the
\* task-create, reminder, contact-search and availability flows of the HTTP
\* adapter issue the same sequence of outbound calls with the same payloads as
\* the corresponding tool.
C12_SameCallsAllFlows ==
    \A f \in MirroredFlows : (InFlow(f) /\ Complete(f)) => SameCalls(f)

\* the values POST /tasks sends for fields the caller left out
TaskDefaults == [Status |-> "To Do", Priority |-> "Medium", Notes |-> ""]

TaskFlow == <<"create_airtable_task", "POST /tasks">>

\* C12 as amended: for the same input carrying the required fields and the same
\* upstream behaviour, the reminder, contact-search and availability flows of
\* the two adapters issue the same sequence of outbound calls with the same
\* payloads. The task-create flows both issue one create on the Tasks table; the
\* HTTP field map is the tool's field map completed with Status "To Do",
\* Priority "Medium" and Notes "" for each of those the caller left out.
C12_MirrorUpToTaskDefaults ==
    /\ \A f \in MirroredFlows \ {TaskFlow} : (InFlow(f) /\ Complete(f)) => SameCalls(f)
    /\ (InFlow(TaskFlow) /\ Complete(TaskFlow)) =>
           LET tool == Handler([req EXCEPT !.adapter = "tool", !.op = TaskFlow[1]], <<>>)
               http == Handler([req EXCEPT !.adapter = "http", !.op = TaskFlow[2]], <<>>)
               tf   == tool.call.json.fields
           IN  /\ tool.next = "call" /\ http.next = "call"
               /\ Len(calls) = 1
               /\ calls[1] = IF req.adapter = "tool" THEN tool.call ELSE http.call
               /\ http.call = [tool.call EXCEPT !.json.fields =
                                  [k \in DOMAIN tf \cup DOMAIN TaskDefaults |->
                                      IF k \in DOMAIN tf THEN tf[k] ELSE TaskDefaults[k]]]
               /\ tool.call.table = "Tasks"
               /\ pc = "done" => Handler(Mirror(req, TaskFlow), results).next # "call"

\* POST /tasks with the name only: the create carries the three defaults,
\* where the tool's create carries the name alone
C12_Witness ==
    /\ req.adapter = "http" /\ req.op = "POST /tasks" /\ pc = "done"
    /\ DOMAIN req.args = {"name"}
    /\ Len(calls) = 1 /\ AllReturned
    /\ DOMAIN calls[1].json.fields = {"Name", "Status", "Priority", "Notes"}
    /\ calls[1].json.fields.Status = "To Do"
    /\ DOMAIN Handler(Mirror(req, TaskFlow), <<>>).call.json.fields = {"Name"}

\* the request in flight is one that only reads
IsReadRequest ==
    \/ req.adapter = "resource"
    \/ req.adapter = "http" /\ req.op = "GET /airtable/{table_name}"

\* this step delivers the answer to the outstanding call
Delivered == Len(outcomes') = Len(outcomes) + 1

\* the request in flight fetches the Tasks table
IsTasksFetchRequest ==
    IsReadRequest /\ Len(calls) = 1 /\ IsTasksFetch(calls[1])

\* record g carries the Name, and the Status if any, of field map f
Carries(g, f) ==
    /\ "Name" \in DOMAIN g /\ g["Name"] = f["Name"]
    /\ "Status" \in DOMAIN f => ("Status" \in DOMAIN g /\ g["Status"] = f["Status"])

\* every record create_airtable_task had stored is among records
ContainsCreated(records) ==
    \A f \in created : \E i \in 1..Len(records) : Carries(records[i].fields, f)

\* a read issues one call, a GET, and the remote state is what it was when the
\* call is answered
ReadsLeaveStore ==
    /\ IsReadRequest' => (Len(calls') <= 1 /\ \A i \in 1..Len(calls') : calls'[i].verb = "GET")
    /\ (Delivered /\ IsReadRequest) => store' = store

\* C13 as claimed: reads issue a single read call and leave the remote state
\* unchanged; a fetch of the Tasks table that returns, and follows another that
\* returned with no write in between, returns the same record sequence; a
\* successful fetch of the Tasks
\* table contains every record create_airtable_task had stored, with its Name
\* and Status.
C13_AnyTwoFetchesAgree ==
    [][/\ ReadsLeaveStore
       /\ (Delivered /\ IsTasksFetchRequest /\ fetched.any.valid
               /\ results'[1].kind = "value") =>
              results'[1].val = fetched.any.records
       /\ (Delivered /\ IsTasksFetchRequest /\ Succeeded(1)') =>
              ContainsCreated(results'[1].val)]_vars

\* C13 as amended: reads issue a single read call and leave the remote state
\* unchanged; a successful fetch of the Tasks table that follows another
\* successful one with no write in between returns the same record sequence; a
\* successful fetch of the Tasks table contains every record
\* create_airtable_task had stored, with its Name and Status.
C13_SuccessfulFetchesAgree ==
    [][/\ ReadsLeaveStore
       /\ (Delivered /\ IsTasksFetchRequest /\ Succeeded(1)') =>
              /\ results'[1].kind = "value"
              /\ fetched.ok.valid => results'[1].val = fetched.ok.records
              /\ ContainsCreated(results'[1].val)]_vars

\* the Tasks table fetched successfully twice in a row after create_airtable_task
\* stored a record with Name and Status, and both fetches contain it
C13_Witness ==
    /\ IsTasksFetchRequest /\ pc = "done" /\ Succeeded(1)
    /\ fetched.ok.n = 2
    /\ fetched.ok.records = results[1].val
    /\ [Name |-> "Write report", Status |-> "Open"] \in created
    /\ \E i \in 1..Len(results[1].val) :
           results[1].val[i].fields = [Name |-> "Write report", Status |-> "Open"]

\* the calls request i has put on the wire, in order
Own(i) == SelectSeq(wire, LAMBDA e : e.owner = i)

\* what the integration service gives for the answered calls of request i
OwnResults(i) ==
    LET own == Own(i)
        n   == Cardinality({k \in 1..Len(own) : own[k].answered})
    IN  [k \in 1..n |-> ServiceResult(own[k].call, own[k].outcome)]

\* C14: under any interleaving of concurrently handled requests, each request
\* has received exactly the results of its own outbound calls, in order; each of
\* its calls and its response are what its handler computes from its own
\* arguments and those results alone; and a reminder request's calendar write is
\* answered before its own table write is issued, whatever other requests' calls
\* lie between them.
C14_RequestsIsolated ==
    \A i \in Slots :
        LET s   == slots[i]
            own == Own(i)
            rs  == OwnResults(i)
        IN  /\ s.pc = "idle" => own = <<>>
            /\ s.pc # "idle" =>
                  /\ \A k \in 1..Len(own) : own[k].answered <=> k <= Len(rs)
                  /\ Len(own) <= Len(rs) + 1
                  /\ s.results = rs
                  /\ \A k \in 1..Len(own) :
                         LET st == Handler(s.req, SubSeq(rs, 1, k - 1))
                         IN  st.next = "call" /\ st.call = own[k].call
                  /\ s.pc = "waiting" =>
                         /\ Len(own) = Len(rs) + 1
                         /\ own[Len(own)].session = s.session
                  /\ s.pc = "done" =>
                         /\ Len(own) = Len(rs)
                         /\ Handler(s.req, rs).next # "call"
                         /\ s.resp = Handler(s.req, rs).resp
                  /\ Len(own) <= 2
                  /\ Len(own) >= 1 => (own[1].call.svc = "calendar" /\ own[1].call.verb = "POST")
                  /\ Len(own) = 2 =>
                         /\ own[2].call.svc = "table" /\ own[2].call.verb = "POST"
                         /\ own[1].answered

\* two reminder requests with the same arguments, their calls interleaved on the
\* wire; the first succeeds on both providers, the second on the calendar only
C14_Witness ==
    /\ Len(wire) = 4
    /\ wire[1].owner = 1 /\ wire[2].owner = 2 /\ wire[3].owner = 1 /\ wire[4].owner = 2
    /\ slots[1].pc = "done" /\ slots[2].pc = "done"
    /\ slots[1].req = slots[2].req
    /\ Truthy(slots[1].results[1]) /\ Truthy(slots[1].results[2])
    /\ Truthy(slots[2].results[1]) /\ IsNone(slots[2].results[2])
    /\ slots[1].resp # slots[2].resp

====
